---------------------------- MODULE Spec2Model ----------------------------
(***************************************************************************)
(* A model of program_director/scanner.py: the Radarr and Sonarr catalog   *)
(* clients and the MediaLibrary that caches, partitions, ranks, counts and *)
(* searches their items.                                                   *)
(*                                                                         *)
(* Representation.  A Python str is a sequence of one-character strings.   *)
(* An optional value (a dict key that may be missing, or a cache that is   *)
(* None) is a sequence of length 0 or 1.  A rating is a whole number of    *)
(* tenths (85 is 8.5).  A title is an opaque value the code only copies.   *)
(***************************************************************************)
EXTENDS Integers, Sequences, FiniteSets, TLC

VARIABLES
    rawMovies,      \* what GET /api/v3/movie answers
    rawSeries,      \* what GET /api/v3/series answers
    _movies,        \* MediaLibrary._movies
    _series,        \* MediaLibrary._series
    radarrOpen,     \* MediaLibrary.radarr.client is not closed
    sonarrOpen,     \* MediaLibrary.sonarr.client is not closed
    movieFetches,   \* GET requests issued for the movie catalog
    seriesFetches,  \* GET requests issued for the series catalog
    scope,          \* position of the caller relative to a with block
    result          \* outcome of the last call

vars == <<rawMovies, rawSeries, _movies, _series, radarrOpen, sonarrOpen,
          movieFetches, seriesFetches, scope, result>>

-----------------------------------------------------------------------------
(* Optional values *)

None == <<>>

Some(x) == <<x>>

\* dict.get(key, default)
Get(opt, default) == IF opt = None THEN default ELSE opt[1]

-----------------------------------------------------------------------------
(* Strings *)

Uppers == <<"A", "N", "I", "M", "E", "W", "R">>

Lowers == <<"a", "n", "i", "m", "e", "w", "r">>

LowerChar(c) ==
    IF \E i \in 1..Len(Uppers) : Uppers[i] = c
    THEN Lowers[CHOOSE i \in 1..Len(Uppers) : Uppers[i] = c]
    ELSE c

\* str.lower()
Lower(s) == [i \in 1..Len(s) |-> LowerChar(s[i])]

\* sub in s, for two strings
Contains(sub, s) ==
    \E k \in 0..(Len(s) - Len(sub)) :
        \A i \in 1..Len(sub) : s[k + i] = sub[i]

\* x in xs, for a list
InList(x, xs) == \E i \in 1..Len(xs) : xs[i] = x

\* a list comprehension, evaluated once into a list
List(f) == f \o <<>>

\* xs[:n]
Take(xs, n) == SubSeq(xs, 1, IF Len(xs) < n THEN Len(xs) ELSE n)

RECURSIVE Join(_, _)
\* sep.join(parts)
Join(sep, parts) ==
    IF parts = <<>> THEN <<>>
    ELSE IF Len(parts) = 1 THEN parts[1]
    ELSE parts[1] \o sep \o Join(sep, Tail(parts))

s_anime == <<"a", "n", "i", "m", "e">>

s_dash == <<"-">>

s_comma == <<",", " ">>

s_standard == <<"s", "t", "d">>

s_unknown == <<"U", "n", "k", "n", "o", "w", "n">>

-----------------------------------------------------------------------------
(* Catalog clients *)

\* the MovieItem built from one raw record
MovieItem(item) ==
    LET ratings == Get(item.ratings, [imdb |-> None, tmdb |-> None])
    IN  [id          |-> Get(item.id, 0),
         title       |-> Get(item.title, s_unknown),
         year        |-> Get(item.year, 0),
         genres      |-> Get(item.genres, <<>>),
         runtime     |-> Get(item.runtime, 0),
         overview    |-> Get(item.overview, <<>>),
         imdb_rating |-> Get(Get(ratings.imdb, [value |-> None]).value, 0),
         tmdb_rating |-> Get(Get(ratings.tmdb, [value |-> None]).value, 0),
         has_file    |-> TRUE]

\* RadarrClient.get_movies applied to the fetched data
get_movies(data) ==
    LET HasFile(item) == Get(item.hasFile, FALSE)
        kept == SelectSeq(data, HasFile)
    IN  List([i \in 1..Len(kept) |-> MovieItem(kept[i])])

\* stats.get("episodeFileCount", 0) of one raw record
EpisodeFileCount(item) ==
    Get(Get(item.statistics, [episodeFileCount |-> None]).episodeFileCount, 0)

\* the SeriesItem built from one raw record
SeriesItem(item) ==
    [id            |-> Get(item.id, 0),
     title         |-> Get(item.title, s_unknown),
     year          |-> Get(item.year, 0),
     genres        |-> Get(item.genres, <<>>),
     runtime       |-> Get(item.runtime, 0),
     overview      |-> Get(item.overview, <<>>),
     rating        |-> Get(Get(item.ratings, [value |-> None]).value, 0),
     episode_count |-> EpisodeFileCount(item),
     series_type   |-> Get(item.seriesType, s_standard)]

\* a skip test that lets a count of zero through
SkipsEpisodeCount_negative(n) == n < 0

\* if episode_count == 0: continue
SkipsEpisodeCount(n) == n = 0

\* SonarrClient.get_series applied to the fetched data
get_series(data) ==
    LET Kept(item) == ~SkipsEpisodeCount(EpisodeFileCount(item))
        kept == SelectSeq(data, Kept)
    IN  List([i \in 1..Len(kept) |-> SeriesItem(kept[i])])

-----------------------------------------------------------------------------
(* Python built-ins the library uses *)

\* the positions of xs in reverse
Reversed(xs) == List([i \in 1..Len(xs) |-> xs[Len(xs) + 1 - i]])

\* a descending sort that puts the items of equal key in reverse input order
\* (an ascending sort, reversed)
StableDescOrder_unstable(keys, n) ==
    LET positions == List([i \in 1..n |-> i])
        RECURSIVE Build(_)
        Build(rest) ==
            IF rest = {} THEN <<>>
            ELSE LET v == CHOOSE x \in rest : \A y \in rest : y <= x
                     HasKey(i) == keys[i] = v
                 IN  Reversed(SelectSeq(positions, HasKey)) \o Build(rest \ {v})
    IN  Build({keys[i] : i \in 1..n})

\* The order sorted(xs, key=..., reverse=True) puts the positions 1..n in, for
\* the keys of those positions: the positions of the greatest key in input
\* order, then those of the next key, and so on.
StableDescOrder(keys, n) ==
    LET positions == List([i \in 1..n |-> i])
        RECURSIVE Build(_)
        Build(rest) ==
            IF rest = {} THEN <<>>
            ELSE LET v == CHOOSE x \in rest : \A y \in rest : y <= x
                     HasKey(i) == keys[i] = v
                 IN  SelectSeq(positions, HasKey) \o Build(rest \ {v})
    IN  Build({keys[i] : i \in 1..n})

Digits == <<"0", "1", "2", "3", "4", "5", "6", "7", "8", "9">>

RECURSIVE Str(_)
\* str(n) for a natural number
Str(n) == IF n < 10 THEN <<Digits[n + 1]>>
          ELSE Str(n \div 10) \o <<Digits[(n % 10) + 1]>>

\* f"{x:.1f}" for a rating given in tenths
FormatRating(r) == Str(r \div 10) \o <<".">> \o Str(r % 10)

-----------------------------------------------------------------------------
(* MediaLibrary: cached properties *)

\* movies without the "is None" test: every evaluation fetches
movies_refetch(ok) ==
    IF radarrOpen /\ ok THEN Some(get_movies(rawMovies)) ELSE None

\* _movies once the movies property was evaluated, the server answering ok or
\* not; None when the fetch raised
movies(ok) ==
    IF _movies # None THEN _movies
    ELSE IF radarrOpen /\ ok THEN Some(get_movies(rawMovies))
    ELSE None

\* _series once the series property was evaluated
series(ok) ==
    IF _series # None THEN _series
    ELSE IF sonarrOpen /\ ok THEN Some(get_series(rawSeries))
    ELSE None

\* the anime predicate on one series item
IsAnime(s) == s.series_type = s_anime \/ InList(s_anime, [i \in 1..Len(s.genres) |-> Lower(s.genres[i])])

\* MediaLibrary.anime over the cached list
anime(cached) == SelectSeq(cached, IsAnime)

\* tv_shows by the anime predicate on each item instead of by anime ids
tv_shows_by_predicate(cached) ==
    LET NotAnime(s) == ~IsAnime(s)
    IN  SelectSeq(cached, NotAnime)

\* MediaLibrary.tv_shows over the cached list
tv_shows(cached) ==
    LET anime_ids == {anime(cached)[i].id : i \in 1..Len(anime(cached))}
        NotAnimeId(s) == s.id \notin anime_ids
    IN  SelectSeq(cached, NotAnimeId)

-----------------------------------------------------------------------------
(* MediaLibrary: summary, statistics, search *)

MovieRowLimit == 100

SeriesRowLimit == 50

GenreLimit == 3

\* m.imdb_rating or 0
OrZero(r) == IF r = 0 THEN 0 ELSE r

\* sorted(items, key=lambda x: Key(x) or 0, reverse=True)
SortedByRating(items, ratings) ==
    LET order == StableDescOrder(List([i \in 1..Len(items) |-> OrZero(ratings[i])]),
                                 Len(items))
    IN  List([i \in 1..Len(items) |-> items[order[i]]])

RatingCell(r) == IF r # 0 THEN FormatRating(r) ELSE s_dash

\* the genre cell of a movie or TV show row
GenreCell(genres) ==
    IF genres # <<>> THEN Join(s_comma, Take(genres, GenreLimit)) ELSE s_dash

NotAnimeGenre(g) == Lower(g) # s_anime

\* the genre cell of an anime row
AnimeGenreCell(genres) ==
    LET cell == Join(s_comma, SelectSeq(Take(genres, GenreLimit), NotAnimeGenre))
    IN  IF cell # <<>> THEN cell ELSE s_dash

MovieRow(m) ==
    [title |-> m.title, year |-> m.year, genres |-> GenreCell(m.genres),
     rating |-> RatingCell(m.imdb_rating), last |-> m.runtime]

ShowRow(s) ==
    [title |-> s.title, year |-> s.year, genres |-> GenreCell(s.genres),
     rating |-> RatingCell(s.rating), last |-> s.episode_count]

AnimeRow(a) ==
    [title |-> a.title, year |-> a.year, genres |-> AnimeGenreCell(a.genres),
     rating |-> RatingCell(a.rating), last |-> a.episode_count]

MovieTable(ms) ==
    LET sorted_movies == SortedByRating(ms, [i \in 1..Len(ms) |-> ms[i].imdb_rating])
        top == Take(sorted_movies, MovieRowLimit)
    IN  List([i \in 1..Len(top) |-> MovieRow(top[i])])

ShowTable(shows) ==
    LET sorted_shows == SortedByRating(shows, [i \in 1..Len(shows) |-> shows[i].rating])
        top == Take(sorted_shows, SeriesRowLimit)
    IN  List([i \in 1..Len(top) |-> ShowRow(top[i])])

AnimeTable(as) ==
    LET sorted_anime == SortedByRating(as, [i \in 1..Len(as) |-> as[i].rating])
        top == Take(sorted_anime, SeriesRowLimit)
    IN  List([i \in 1..Len(top) |-> AnimeRow(top[i])])

\* the document get_media_summary renders from the two cached lists
MediaSummary(ms, ss) ==
    [movie_rows  |-> MovieTable(ms),
     movie_total |-> Len(ms),
     show_rows   |-> ShowTable(tv_shows(ss)),
     show_total  |-> Len(tv_shows(ss)),
     anime_rows  |-> AnimeTable(anime(ss)),
     anime_total |-> Len(anime(ss))]

\* a count that is set on the first occurrence and never added to
Counted_once(genre_counts, genre) ==
    IF \E i \in 1..Len(genre_counts) : genre_counts[i][1] = genre
    THEN genre_counts
    ELSE Append(genre_counts, <<genre, 1>>)

\* genre_counts[genre] = genre_counts.get(genre, 0) + 1, on an ordered dict
\* held as a list of <<key, value>>
Counted(genre_counts, genre) ==
    IF \E i \in 1..Len(genre_counts) : genre_counts[i][1] = genre
    THEN [i \in 1..Len(genre_counts) |->
            IF genre_counts[i][1] = genre
            THEN <<genre, genre_counts[i][2] + 1>>
            ELSE genre_counts[i]]
    ELSE Append(genre_counts, <<genre, 1>>)

RECURSIVE CountGenres(_, _)
\* the two counting loops, over one list of items
CountGenres(genre_counts, items) ==
    LET RECURSIVE CountOne(_, _)
        CountOne(counts, genres) ==
            IF genres = <<>> THEN counts
            ELSE CountOne(Counted(counts, Head(genres)), Tail(genres))
    IN  IF items = <<>> THEN genre_counts
        ELSE CountGenres(CountOne(genre_counts, Head(items).genres), Tail(items))

\* the ordered mapping get_genre_stats returns
GenreStats(ms, ss) ==
    LET genre_counts == CountGenres(CountGenres(<<>>, ms), ss)
        order == StableDescOrder(List([i \in 1..Len(genre_counts) |-> genre_counts[i][2]]),
                                 Len(genre_counts))
    IN  List([i \in 1..Len(genre_counts) |-> genre_counts[order[i]]])

\* MediaLibrary._matches_theme
_matches_theme(genres, overview, keywords) ==
    LET genres_lower == [i \in 1..Len(genres) |-> Lower(genres[i])]
        overview_lower == Lower(overview)
    IN  \E k \in 1..Len(keywords) :
            InList(keywords[k], genres_lower) \/ Contains(keywords[k], overview_lower)

\* the keywords as given
KeywordsLower_asgiven(theme_keywords) == theme_keywords

\* k.lower() for k in theme_keywords
KeywordsLower(theme_keywords) ==
    [k \in 1..Len(theme_keywords) |-> Lower(theme_keywords[k])]

\* the three lists search_by_theme returns
ThemeSearch(theme_keywords, ms, ss) ==
    LET keywords_lower == KeywordsLower(theme_keywords)
        Matches(x) == _matches_theme(x.genres, x.overview, keywords_lower)
    IN  [movies |-> SelectSeq(ms, Matches),
         shows  |-> SelectSeq(tv_shows(ss), Matches),
         anime  |-> SelectSeq(anime(ss), Matches)]

-----------------------------------------------------------------------------
(* Calls on one MediaLibrary instance *)

MaxFetches == 2

Returned(op, value) == [op |-> op, status |-> "ok", value |-> value]

Raised(op) == [op |-> op, status |-> "error", value |-> <<>>]

\* what evaluating self.movies does to the library
TouchMovies(okM) ==
    /\ _movies = None => movieFetches < MaxFetches
    /\ _movies' = movies(okM)
    /\ movieFetches' = IF _movies = None THEN movieFetches + 1 ELSE movieFetches

\* what evaluating self.series (directly or through anime or tv_shows) does
TouchSeries(okS) ==
    /\ _series = None => seriesFetches < MaxFetches
    /\ _series' = series(okS)
    /\ seriesFetches' = IF _series = None THEN seriesFetches + 1 ELSE seriesFetches

\* self.movies first and, unless that raised, self.series
TouchBoth(okM, okS) ==
    /\ TouchMovies(okM)
    /\ IF movies(okM) = None
       THEN UNCHANGED <<_series, seriesFetches>>
       ELSE TouchSeries(okS)

Movies(okM) ==
    /\ TouchMovies(okM)
    /\ result' = IF movies(okM) = None THEN Raised("movies")
                 ELSE Returned("movies", movies(okM)[1])
    /\ UNCHANGED <<rawMovies, rawSeries, _series, seriesFetches,
                   radarrOpen, sonarrOpen, scope>>

Series(okS) ==
    /\ TouchSeries(okS)
    /\ result' = IF series(okS) = None THEN Raised("series")
                 ELSE Returned("series", series(okS)[1])
    /\ UNCHANGED <<rawMovies, rawSeries, _movies, movieFetches,
                   radarrOpen, sonarrOpen, scope>>

Anime(okS) ==
    /\ TouchSeries(okS)
    /\ result' = IF series(okS) = None THEN Raised("anime")
                 ELSE Returned("anime", anime(series(okS)[1]))
    /\ UNCHANGED <<rawMovies, rawSeries, _movies, movieFetches,
                   radarrOpen, sonarrOpen, scope>>

TvShows(okS) ==
    /\ TouchSeries(okS)
    /\ result' = IF series(okS) = None THEN Raised("tv_shows")
                 ELSE Returned("tv_shows", tv_shows(series(okS)[1]))
    /\ UNCHANGED <<rawMovies, rawSeries, _movies, movieFetches,
                   radarrOpen, sonarrOpen, scope>>

\* get_media_summary that swallows a failed fetch and renders what it has
GetMediaSummary_partial(okM, okS) ==
    /\ TouchBoth(okM, okS)
    /\ result' = Returned("get_media_summary",
                          MediaSummary(Get(movies(okM), <<>>),
                                       IF movies(okM) = None THEN <<>>
                                       ELSE Get(series(okS), <<>>)))
    /\ UNCHANGED <<rawMovies, rawSeries, radarrOpen, sonarrOpen, scope>>

GetMediaSummary(okM, okS) ==
    /\ TouchBoth(okM, okS)
    /\ result' = IF movies(okM) = None \/ series(okS) = None
                 THEN Raised("get_media_summary")
                 ELSE Returned("get_media_summary",
                               MediaSummary(movies(okM)[1], series(okS)[1]))
    /\ UNCHANGED <<rawMovies, rawSeries, radarrOpen, sonarrOpen, scope>>

GetGenreStats(okM, okS) ==
    /\ TouchBoth(okM, okS)
    /\ result' = IF movies(okM) = None \/ series(okS) = None
                 THEN Raised("get_genre_stats")
                 ELSE Returned("get_genre_stats",
                               GenreStats(movies(okM)[1], series(okS)[1]))
    /\ UNCHANGED <<rawMovies, rawSeries, radarrOpen, sonarrOpen, scope>>

SearchByTheme(theme_keywords, okM, okS) ==
    /\ TouchBoth(okM, okS)
    /\ result' = IF movies(okM) = None \/ series(okS) = None
                 THEN Raised("search_by_theme")
                 ELSE [op |-> "search_by_theme", status |-> "ok",
                       keywords |-> theme_keywords,
                       value |-> ThemeSearch(theme_keywords,
                                             movies(okM)[1], series(okS)[1])]
    /\ UNCHANGED <<rawMovies, rawSeries, radarrOpen, sonarrOpen, scope>>

\* close that forgets the second client
close_radarr_only ==
    /\ radarrOpen' = FALSE
    /\ sonarrOpen' = sonarrOpen

\* MediaLibrary.close: both clients' close, one after the other
close ==
    /\ radarrOpen' = FALSE
    /\ sonarrOpen' = FALSE

Close ==
    /\ close
    /\ result' = Returned("close", <<>>)
    /\ UNCHANGED <<rawMovies, rawSeries, _movies, _series,
                   movieFetches, seriesFetches, scope>>

\* with library: ...
Enter ==
    /\ scope = "none"
    /\ scope' = "inside"
    /\ result' = Returned("__enter__", <<>>)
    /\ UNCHANGED <<rawMovies, rawSeries, _movies, _series, radarrOpen,
                   sonarrOpen, movieFetches, seriesFetches>>

\* leaving the with block, at its end or by an exception raised in it:
\* __exit__ runs, and an exception goes on to the caller
Exit(byException) ==
    /\ scope = "inside"
    /\ close
    /\ scope' = "exited"
    /\ result' = IF byException THEN Raised("with") ELSE Returned("with", <<>>)
    /\ UNCHANGED <<rawMovies, rawSeries, _movies, _series,
                   movieFetches, seriesFetches>>

-----------------------------------------------------------------------------
(* Catalogs the two services may hold *)

Anime_ == <<"A", "n", "i", "m", "e">>

War == <<"W", "a", "r">>

Noir == <<"N", "o", "i", "r">>

RawRatings(imdb) == Some([imdb |-> Some([value |-> Some(imdb)]), tmdb |-> None])

RawMovie(id, title, genres, overview, hasFile, ratings) ==
    [id |-> id, title |-> Some(title), year |-> Some(2020), genres |-> genres,
     runtime |-> Some(90), overview |-> overview, hasFile |-> hasFile,
     ratings |-> ratings]

RawSeries(id, title, genres, overview, seriesType, rating, statistics) ==
    [id |-> id, title |-> Some(title), year |-> Some(2020), genres |-> genres,
     runtime |-> Some(24), overview |-> overview, seriesType |-> seriesType,
     ratings |-> Some([value |-> Some(rating)]), statistics |-> statistics]

Episodes(n) == Some([episodeFileCount |-> Some(n)])

MovieCatalogs ==
    { <<>>,
      << RawMovie(Some(1), Str(1), Some(<<War>>), Some(<<"a", " ", "w", "a", "r">>),
                  Some(TRUE), RawRatings(85)),
         RawMovie(Some(2), Str(2), None, None, Some(FALSE), None),
         RawMovie(None, Str(3), Some(<<Noir, War>>), None, Some(TRUE), None) >> }

SeriesCatalogs ==
    { <<>>,
      << RawSeries(Some(5), Str(1), None, None, Some(s_anime), 80, Episodes(12)),
         RawSeries(Some(6), Str(2), Some(<<War>>), None, None, 0, Episodes(3)),
         RawSeries(Some(7), Str(3), Some(<<Anime_>>), None, None, 70, Episodes(0)),
         RawSeries(None, Str(4), Some(<<Noir, Anime_>>), None, Some(s_standard), 70,
                   Episodes(1)) >> }

Keywords == { <<War>>, <<<<"A", "N", "I", "M", "E">>, <<"n", "o">>>> }

InitLibrary ==
    /\ _movies = None
    /\ _series = None
    /\ radarrOpen = TRUE
    /\ sonarrOpen = TRUE
    /\ movieFetches = 0
    /\ seriesFetches = 0
    /\ scope = "none"
    /\ result = Returned("__init__", <<>>)

Init ==
    /\ rawMovies \in MovieCatalogs
    /\ rawSeries \in SeriesCatalogs
    /\ InitLibrary

\* the services' libraries change while the instance lives
CatalogChange ==
    /\ rawMovies' \in MovieCatalogs
    /\ rawSeries' \in SeriesCatalogs
    /\ UNCHANGED <<_movies, _series, radarrOpen, sonarrOpen, movieFetches,
                   seriesFetches, scope, result>>

Next ==
    \/ \E okM \in BOOLEAN : Movies(okM)
    \/ \E okS \in BOOLEAN : Series(okS)
    \/ \E okS \in BOOLEAN : Anime(okS)
    \/ \E okS \in BOOLEAN : TvShows(okS)
    \/ \E okM, okS \in BOOLEAN : GetMediaSummary(okM, okS)
    \/ \E okM, okS \in BOOLEAN : GetGenreStats(okM, okS)
    \/ \E k \in Keywords, okM, okS \in BOOLEAN : SearchByTheme(k, okM, okS)
    \/ Close
    \/ Enter
    \/ \E byException \in BOOLEAN : Exit(byException)
    \/ CatalogChange

Spec == Init /\ [][Next]_vars

-----------------------------------------------------------------------------
(* Properties of the caches and of the connections *)

\* C2: a populated cache is never fetched for again and never changes, whatever
\* is called and whatever the service holds by then; so each cache is populated
\* at most once.
C2_PopulatedOnce ==
    [][ /\ _movies # None => (_movies' = _movies /\ movieFetches' = movieFetches)
        /\ _series # None => (_series' = _series /\ seriesFetches' = seriesFetches)
      ]_vars

\* both caches populated, the services' catalogs changed since, and a call just
\* answered from the cache
C2_Witness ==
    /\ _movies # None /\ _series # None
    /\ movieFetches = 1 /\ seriesFetches = 1
    /\ radarrOpen /\ sonarrOpen
    /\ _movies[1] # get_movies(rawMovies)
    /\ _series[1] # get_series(rawSeries)
    /\ result.op = "get_genre_stats" /\ result.status = "ok"

\* C3: a failed movie fetch raises, leaves _movies None and does not touch the
\* series cache, and the series access that follows fetches and returns the
\* series list; the same with movies and series exchanged; a get_media_summary
\* call in which a fetch fails returns no document.
C3_IndependentFailure ==
    [][ /\ (result'.op = "movies" /\ result'.status = "error")
            => /\ _movies' = None
               /\ _series' = _series /\ seriesFetches' = seriesFetches
        /\ (result'.op = "series" /\ result'.status = "error")
            => /\ _series' = None
               /\ _movies' = _movies /\ movieFetches' = movieFetches
        /\ (/\ result.op = "movies" /\ result.status = "error"
            /\ result'.op = "series" /\ _series = None /\ _series' # None)
            => /\ seriesFetches' = seriesFetches + 1
               /\ result'.status = "ok"
               /\ result'.value = get_series(rawSeries)
        /\ (/\ result.op = "series" /\ result.status = "error"
            /\ result'.op = "movies" /\ _movies = None /\ _movies' # None)
            => /\ movieFetches' = movieFetches + 1
               /\ result'.status = "ok"
               /\ result'.value = get_movies(rawMovies)
        /\ (/\ result'.op = "get_media_summary"
            /\ \/ movieFetches' = movieFetches + 1 /\ _movies' = None
               \/ seriesFetches' = seriesFetches + 1 /\ _series' = None)
            => result' = Raised("get_media_summary")
      ]_vars

\* the movie fetch failed on an open client, and the series access after it
\* returned a list with items in it
C3_Witness ==
    /\ _movies = None /\ movieFetches >= 1 /\ radarrOpen
    /\ result.op = "series" /\ result.status = "ok"
    /\ result.value # <<>>
    /\ _series = Some(result.value)

\* C9: once a with block over the library is left, at its end or by an
\* exception, both clients are closed; and the two clients are never in
\* different states.
C9_ScopedRelease ==
    /\ scope = "exited" => (~radarrOpen /\ ~sonarrOpen)
    /\ radarrOpen = sonarrOpen

\* the with block was left by an exception and both clients are closed
C9_Witness ==
    /\ scope = "exited"
    /\ result = Raised("with")
    /\ ~radarrOpen /\ ~sonarrOpen

-----------------------------------------------------------------------------
(* The series catalog: filtering and the anime / TV partition *)

MaxSeries == 2

SeriesIds == {None, Some(1)}

SeriesStatistics == {None, Episodes(0), Episodes(2)}

\* <<seriesType, genres>>
SeriesKinds ==
    { <<None, None>>,
      <<Some(s_anime), Some(<<War>>)>>,
      <<Some(s_standard), Some(<<War, <<"A", "N", "i", "m", "e">>>>)>> }

\* every list of up to MaxSeries raw records, the record at position i titled i
SeriesLists ==
    UNION { { [i \in 1..n |->
                 RawSeries(ids[i], Str(i), kinds[i][2], None, kinds[i][1], 0, stats[i])] :
              ids \in [1..n -> SeriesIds],
              kinds \in [1..n -> SeriesKinds],
              stats \in [1..n -> SeriesStatistics] } : n \in 0..MaxSeries }

\* a catalog with every way of having no downloaded episode
NoCountList ==
    << RawSeries(Some(1), Str(1), None, None, None, 0, Some([episodeFileCount |-> None])),
       RawSeries(Some(2), Str(2), None, None, None, 0, Episodes(0)),
       RawSeries(Some(3), Str(3), None, None, None, 0, None),
       RawSeries(Some(4), Str(4), None, None, None, 0, Episodes(1)) >>

InitCatalog ==
    /\ rawMovies = <<>>
    /\ rawSeries \in SeriesLists \cup {NoCountList}
    /\ InitLibrary

NextCatalog ==
    \/ \E okS \in BOOLEAN : Series(okS)
    \/ \E okS \in BOOLEAN : Anime(okS)
    \/ \E okS \in BOOLEAN : TvShows(okS)

SpecCatalog == InitCatalog /\ [][NextCatalog]_vars

Ids(items) == {items[i].id : i \in 1..Len(items)}

\* C1: by identifier, anime and tv_shows partition the cached series: every id
\* of series is an id of one of them, and no id is an id of both.
C1_IdPartition ==
    _series # None =>
        /\ Ids(anime(_series[1])) \cup Ids(tv_shows(_series[1])) = Ids(_series[1])
        /\ Ids(anime(_series[1])) \cap Ids(tv_shows(_series[1])) = {}

\* tv_shows was just computed over a cache in which an anime item and an item
\* that is not anime share an id
C1_Witness ==
    /\ _series # None
    /\ result.op = "tv_shows" /\ result.status = "ok"
    /\ \E i, j \in 1..Len(_series[1]) :
          /\ _series[1][i].id = _series[1][j].id
          /\ IsAnime(_series[1][i]) /\ ~IsAnime(_series[1][j])

\* the raw record has no downloaded episode
NoEpisodes(item) ==
    \/ item.statistics = None
    \/ item.statistics[1].episodeFileCount = None
    \/ item.statistics[1].episodeFileCount[1] = 0

\* C4: the series list holds no record whose episodeFileCount is zero or
\* absent (records being told apart by their titles), and every item of it has
\* episode_count > 0.
C4_OnlyDownloaded ==
    _series # None =>
        /\ \A k \in 1..Len(_series[1]) : _series[1][k].episode_count > 0
        /\ \A i \in 1..Len(rawSeries) :
              NoEpisodes(rawSeries[i]) =>
                  \A k \in 1..Len(_series[1]) : _series[1][k].title # Str(i)

\* a fetch of a catalog with a zero-episode record, a record without
\* statistics, a record without count and a record with episodes
C4_Witness ==
    /\ _series # None /\ Len(_series[1]) = 1
    /\ result.op = "series" /\ result.status = "ok"
    /\ \E i, j, k \in 1..Len(rawSeries) :
          /\ rawSeries[i].statistics = Episodes(0)
          /\ rawSeries[j].statistics = None
          /\ rawSeries[k].statistics = Some([episodeFileCount |-> None])

\* C10: item by item, every cached series is in exactly one of anime and
\* tv_shows, and it is in tv_shows exactly when it is not anime.
C10_ItemPartition ==
    _series # None =>
        /\ Len(anime(_series[1])) + Len(tv_shows(_series[1])) = Len(_series[1])
        /\ tv_shows(_series[1]) =
              LET NotAnime(s) == ~IsAnime(s) IN SelectSeq(_series[1], NotAnime)

-----------------------------------------------------------------------------
(* The summary document *)

MaxMovies == 2

MaxOver == 1

MaxGenres == 4

\* the ratings object of a raw movie: missing, without imdb, or with a value
RatingOptions ==
    << None, Some([imdb |-> None, tmdb |-> None]), RawRatings(0), RawRatings(70),
       RawRatings(85) >>

\* n movies titled 1..n, each with a file, the ratings object of movie i being
\* RatingOptions[pick[i]]
RatedMovies(n, pick) ==
    [i \in 1..n |-> RawMovie(Some(i), Str(i), None, None, Some(TRUE), RatingOptions[pick[i]])]

\* every rating of every short list, and the lists around the row limit with
\* ratings that repeat with a period
SummaryMovieLists ==
    UNION { { RatedMovies(n, pick) : pick \in [1..n -> 1..Len(RatingOptions)] } :
            n \in 0..MaxMovies }
    \cup
    { RatedMovies(n, [i \in 1..n |-> ((a * i + b) % Len(RatingOptions)) + 1]) :
        n \in (MovieRowLimit - 1)..(MovieRowLimit + MaxOver),
        a \in 0..(Len(RatingOptions) - 1), b \in 0..(Len(RatingOptions) - 1) }

GenrePool == {Anime_, War, Noir, <<"A", "N", "I", "M", "E">>}

\* one anime series, with every genre list of up to MaxGenres genres
SummarySeriesLists ==
    UNION { { << RawSeries(Some(1), Str(1), Some(genres), None, Some(s_anime), 80,
                           Episodes(12)) >> :
              genres \in [1..n -> GenrePool] } : n \in 0..MaxGenres }

InitSummary ==
    /\ \/ rawMovies \in SummaryMovieLists /\ rawSeries = <<>>
       \/ rawMovies = <<>> /\ rawSeries \in SummarySeriesLists
    /\ InitLibrary

NextSummary == \E okM, okS \in BOOLEAN : GetMediaSummary(okM, okS)

SpecSummary == InitSummary /\ [][NextSummary]_vars

\* the rating a rating cell shows, "-" counting as zero
RowRating(row) ==
    IF row.rating = s_dash THEN 0
    ELSE CHOOSE r \in 0..100 : FormatRating(r) = row.rating

\* the position in the cached list of the movie a row is about, movies being
\* told apart by their titles
RowSource(row) == CHOOSE i \in 1..Len(_movies[1]) : _movies[1][i].title = row.title

\* C5: the Movies table has min(100, number of movies) rows, each row shows the
\* rating of its movie, the rows go by rating downwards with zero lowest and
\* equal ratings in the order of the cached list, and every movie left out
\* ranks after the last row.
C5_MovieTable ==
    (result.op = "get_media_summary" /\ result.status = "ok") =>
        LET ms == _movies[1]
            rows == result.value.movie_rows
            n == Len(rows)
            src == List([k \in 1..n |-> RowSource(rows[k])])
            rk == List([k \in 1..n |-> RowRating(rows[k])])
            shown == {src[k] : k \in 1..n}
        IN  /\ n = (IF Len(ms) < 100 THEN Len(ms) ELSE 100)
            /\ \A k \in 1..n : rk[k] = ms[src[k]].imdb_rating
            /\ \A k \in 1..(n - 1) :
                  \/ rk[k] > rk[k + 1]
                  \/ rk[k] = rk[k + 1] /\ src[k] < src[k + 1]
            /\ \A j \in 1..Len(ms) :
                  j \notin shown =>
                      \/ ms[j].imdb_rating < rk[n]
                      \/ ms[j].imdb_rating = rk[n] /\ j > src[n]

\* more than 100 movies were ranked: the table is cut among the movies of
\* zero rating, above them it has rows of two different ratings, and rows of
\* equal rating
C5_Witness ==
    /\ result.op = "get_media_summary" /\ result.status = "ok"
    /\ Len(_movies[1]) > 100
    /\ Len(result.value.movie_rows) = 100
    /\ result.value.movie_rows[1].rating = result.value.movie_rows[2].rating
    /\ result.value.movie_rows[1].rating # s_dash
    /\ result.value.movie_rows[100].rating = s_dash
    /\ \E k \in 1..100 :
          /\ result.value.movie_rows[k].rating # s_dash
          /\ result.value.movie_rows[k].rating # result.value.movie_rows[1].rating

\* C6: the genre cell of an anime row is the first 3 of the genres left after
\* removing every "anime" genre, or "-" when none is left.
C6_AnimeGenresFilteredFirst ==
    (result.op = "get_media_summary" /\ result.status = "ok") =>
        LET as == anime(_series[1])
            sorted_anime == SortedByRating(as, [i \in 1..Len(as) |-> as[i].rating])
            rows == result.value.anime_rows
            Cell(genres) ==
                LET kept == SelectSeq(genres, NotAnimeGenre)
                IN  IF kept = <<>> THEN s_dash
                    ELSE Join(s_comma, SubSeq(kept, 1, IF Len(kept) < 3 THEN Len(kept) ELSE 3))
        IN  \A k \in 1..Len(rows) : rows[k].genres = Cell(sorted_anime[k].genres)

-----------------------------------------------------------------------------
(* Genre statistics *)

MaxStatItems == 2

s_war == <<"w", "a", "r">>

StatGenreLists ==
    { <<>>, <<War>>, <<Noir>>, <<War, Noir>>, <<Noir, War>>, <<War, War>>,
      <<s_war, War>>, <<Noir, s_war, Noir>> }

StatMovies(n) ==
    { [i \in 1..n |-> RawMovie(Some(i), Str(i), Some(gs[i]), None, Some(TRUE), None)] :
        gs \in [1..n -> StatGenreLists] }

StatSeries(n) ==
    { [i \in 1..n |-> RawSeries(Some(i), Str(i), Some(gs[i]), None, None, 0, Episodes(1))] :
        gs \in [1..n -> StatGenreLists] }

InitStats ==
    /\ \E m \in 0..MaxStatItems : \E n \in 0..(MaxStatItems - m) :
          /\ rawMovies \in StatMovies(m)
          /\ rawSeries \in StatSeries(n)
    /\ InitLibrary

NextStats == \E okM, okS \in BOOLEAN : GetGenreStats(okM, okS)

SpecStats == InitStats /\ [][NextStats]_vars

RECURSIVE AllGenres(_)
\* the genres of a list of items, in the order a scan meets them
AllGenres(items) ==
    IF items = <<>> THEN <<>> ELSE Head(items).genres \o AllGenres(Tail(items))

RECURSIVE SumCounts(_)
SumCounts(stats) ==
    IF stats = <<>> THEN 0 ELSE Head(stats)[2] + SumCounts(Tail(stats))

\* where a scan of movies, then series, first meets the genre
FirstSeen(genre) ==
    LET scan == AllGenres(_movies[1]) \o AllGenres(_series[1])
    IN  CHOOSE i \in 1..Len(scan) :
            scan[i] = genre /\ \A j \in 1..(i - 1) : scan[j] # genre

-----------------------------------------------------------------------------
(* Theme search *)

MaxKeywords == 1

\* <<genres, overview>>
SearchContents ==
    << <<None, None>>,
       <<Some(<<War>>), None>>,
       <<Some(<<Noir, <<"W", "A", "R">>>>), Some(<<"n", "o">>)>>,
       <<Some(<<<<"W", "a", "r", "m">>>>), Some(<<"I", "n", " ", "W", "A", "R", "!">>)>>,
       <<Some(<<Noir>>), Some(<<"a", " ", "w", "a", "r", "m">>)>>,
       <<Some(<<Anime_>>), Some(<<"w", "a", " ", "r">>)>> >>

SearchMovies ==
    [i \in 1..Len(SearchContents) |->
        RawMovie(Some(i), Str(i), SearchContents[i][1], SearchContents[i][2],
                 Some(TRUE), None)]

\* every content as a standard series, then every content as an anime series
SearchSeries ==
    [i \in 1..(Len(SearchContents) + Len(SearchContents)) |->
        LET c == SearchContents[((i - 1) % Len(SearchContents)) + 1]
        IN  RawSeries(Some(i), Str(i), c[1], c[2],
                      IF i > Len(SearchContents) THEN Some(s_anime) ELSE None,
                      0, Episodes(1))]

KeywordPool ==
    { <<>>, s_war, <<"W", "A", "R">>, <<"N", "o", "I", "r">> }

KeywordLists == UNION { [1..n -> KeywordPool] : n \in 0..MaxKeywords }

InitSearch ==
    /\ rawMovies \in {<<>>, SubSeq(SearchMovies, 1, 3), SearchMovies}
    /\ rawSeries \in {<<>>, SearchSeries}
    /\ InitLibrary

NextSearch ==
    \E k \in KeywordLists, okM, okS \in BOOLEAN : SearchByTheme(k, okM, okS)

SpecSearch == InitSearch /\ [][NextSearch]_vars

\* the same character, or the two cases of one letter
SameLetter(c, d) ==
    c = d \/ \E i \in 1..Len(Uppers) : {c, d} = {Uppers[i], Lowers[i]}

\* equal but for the case of letters
SameIgnoringCase(a, b) ==
    Len(a) = Len(b) /\ \A i \in 1..Len(a) : SameLetter(a[i], b[i])

\* the characters that are c but for case
CaseSet(c) ==
    {c} \cup {Uppers[i] : i \in {j \in 1..Len(Uppers) : Lowers[j] = c}}
        \cup {Lowers[i] : i \in {j \in 1..Len(Uppers) : Uppers[j] = c}}

RECURSIVE Recased(_)
\* the strings that are the keyword with letters re-cased
Recased(keyword) ==
    IF keyword = <<>> THEN {<<>>}
    ELSE {<<c>> \o rest : c \in CaseSet(Head(keyword)), rest \in Recased(Tail(keyword))}

RECURSIVE Recasings(_)
\* the keyword lists that are the given one with letters re-cased
Recasings(keywords) ==
    IF keywords = <<>> THEN {<<>>}
    ELSE {<<k>> \o rest : k \in Recased(Head(keywords)), rest \in Recasings(Tail(keywords))}

\* the item has a genre equal to some keyword, or an overview containing some
\* keyword, but for case
MeetsTheme(x, keywords) ==
    \E k \in 1..Len(keywords) :
        \/ \E g \in 1..Len(x.genres) : SameIgnoringCase(x.genres[g], keywords[k])
        \/ \E at \in 0..(Len(x.overview) - Len(keywords[k])) :
              SameIgnoringCase(SubSeq(x.overview, at + 1, at + Len(keywords[k])),
                               keywords[k])

\* C8: a search returns what the search for any re-casing of its keywords
\* returns over the same library, and its three lists are the movies, the TV
\* shows and the anime that have a genre equal to a keyword or an overview
\* containing one, but for case.
C8_SearchIgnoresCase ==
    (result.op = "search_by_theme" /\ result.status = "ok") =>
        LET Meets(x) == MeetsTheme(x, result.keywords)
        IN  /\ \A ks \in Recasings(result.keywords) :
                  ThemeSearch(ks, _movies[1], _series[1]) = result.value
            /\ result.value.movies = SelectSeq(_movies[1], Meets)
            /\ result.value.shows = SelectSeq(tv_shows(_series[1]), Meets)
            /\ result.value.anime = SelectSeq(anime(_series[1]), Meets)

\* a search with a keyword in capitals that returned some and left out some of
\* the movies, of the TV shows and of the anime
C8_Witness ==
    /\ result.op = "search_by_theme" /\ result.status = "ok"
    /\ result.keywords = << <<"W", "A", "R">> >>
    /\ Len(result.value.movies) \in 1..(Len(_movies[1]) - 1)
    /\ Len(result.value.shows) \in 1..(Len(tv_shows(_series[1])) - 1)
    /\ Len(result.value.anime) \in 1..(Len(anime(_series[1])) - 1)

=============================================================================
